---- MODULE Spec2Model ----
(***************************************************************************)
(* Invoice handler frontend: the upload page's extraction loop, the        *)
(* derived-field reconciliation of subtotal / tax / total, and the         *)
(* conflict-gated commit handlers.                                         *)
(*                                                                         *)
(* The repository holds two revisions of the upload page:                  *)
(*   "paged" - src/src/components/UploadPage.tsx (same logic as            *)
(*             src/unnamed/part_010): paged extraction loop, reconciler    *)
(*             that always reconstructs from the tax rate;                 *)
(*   "gated" - src/unnamed/part_007 (same logic as src/unnamed/part_006):  *)
(*             single-shot extraction, conflict check before every write,  *)
(*             reconciler that recomputes subtotal from total - tax.       *)
(* The variable rev says which revision a behaviour runs.                  *)
(*                                                                         *)
(* JavaScript array indices are 0-based; the sequences here are 1-based,   *)
(* so index i of the model is index i-1 of the code.                       *)
(***************************************************************************)
EXTENDS Integers, Sequences, FiniteSets, Bags, TLC

(***************************************************************************)
(* Bounds of the model.                                                    *)
(***************************************************************************)
\* small edit amounts are 0, 5, 10, ... MaxAmountSteps*5 thousandths
MaxAmountSteps == 6
\* money-field edits applied to one record in a behaviour of the reconciler
\* (repeated half-cent edits drift without bound, so the count is capped)
MaxEdits == 2
\* the most records a session holds
MaxRecords == 2
\* commit handler invocations suspended at an await at the same time
MaxInFlight == 1
\* files in the selection of the gated revision
MaxSelectedFiles == 1
\* the largest total_files a page reports
MaxTotalFiles == 2
\* the loop has no iteration cap of its own: extraction requests the model
\* lets one run issue
MaxRequests == 3
\* text edits reach the first MaxEditIndex records of the session
MaxEditIndex == 1
\* the largest files_handled a page reports
MaxHandled == 2

(***************************************************************************)
(* JavaScript values of the money fields.  A value is a record [k, v]:     *)
(* k = "fin" is the finite number v/1000 (v counts thousandths, so that    *)
(* round2 has something to round), k = "nan" is NaN, k = "undefined" is    *)
(* an absent field.  Arithmetic is exact; IEEE-754 doubles differ from it  *)
(* only when a product lands within an ulp of a half cent.                 *)
(***************************************************************************)
Fin(n) == [k |-> "fin", v |-> n]

NaN == [k |-> "nan", v |-> 0]

Undef == [k |-> "undefined", v |-> 0]

\* typeof x === 'number'
IsNumber(x) == x.k \in {"fin", "nan"}

\* typeof x === 'number' && isFinite(x)
IsFiniteNumber(x) == x.k = "fin"

\* !x for a money field: undefined, 0 and NaN are falsy
Falsy(x) == x.k # "fin" \/ x.v = 0

(***************************************************************************)
(* Intermediate results are exact rationals n/d thousandths, with the      *)
(* kinds "nan", "pinf" and "ninf" for the non-finite doubles.              *)
(***************************************************************************)
Rat(kind, n, d) == [k |-> kind, n |-> n, d |-> d]

\* a stored number as an intermediate; undefined is not a number
Lift(x) == IF x.k = "fin" THEN Rat("fin", x.v, 1) ELSE Rat("nan", 0, 1)

\* x ?? 0  and  typeof x === 'number' ? x : 0
OrZero(x) == IF x.k = "undefined" THEN Fin(0) ELSE x

\* x || 0
FalsyToZero(x) == IF Falsy(x) THEN Fin(0) ELSE x

Add(x, y) == IF x.k = "fin" /\ y.k = "fin" THEN Rat("fin", x.v + y.v, 1) ELSE Rat("nan", 0, 1)

Sub(x, y) == IF x.k = "fin" /\ y.k = "fin" THEN Rat("fin", x.v - y.v, 1) ELSE Rat("nan", 0, 1)

\* x * rate, the rate being pct/100
MulRate(x, pct) == IF x.k = "fin" THEN Rat("fin", x.v * pct, 100) ELSE Rat("nan", 0, 1)

\* x / rate: a division by 0 gives +-Infinity, 0/0 gives NaN
DivRate(x, pct) ==
  IF x.k # "fin" THEN Rat("nan", 0, 1)
  ELSE IF pct # 0 THEN Rat("fin", x.v * 100, pct)
  ELSE IF x.v > 0 THEN Rat("pinf", 0, 1)
  ELSE IF x.v < 0 THEN Rat("ninf", 0, 1)
  ELSE Rat("nan", 0, 1)

\* x / (1 + rate)
DivOnePlusRate(x, pct) == IF x.k = "fin" THEN Rat("fin", x.v * 100, 100 + pct) ELSE Rat("nan", 0, 1)

\* Math.round(n/d): the nearest integer, a half rounding towards +Infinity
MathRound(n, d) == (2 * n + d) \div (2 * d)

\* round2 without its isFinite guard: NaN and the infinities pass through
round2Unguarded(q) == IF q.k = "fin" THEN Fin(10 * MathRound(q.n, 10 * q.d)) ELSE [k |-> q.k, v |-> 0]

\* round2: Math.round(n * 100) / 100 for a finite number, undefined otherwise
round2(q) == IF q.k = "fin" THEN Fin(10 * MathRound(q.n, 10 * q.d)) ELSE Undef

(***************************************************************************)
(* handleUpdateResult, the reconciler, in its two revisions.  inv is the   *)
(* copy of the edited record, pct the tax rate in percent.                 *)
(***************************************************************************)
MoneyFields == {"subtotal", "tax_amount", "total"}

PagedTotalEdit(inv, pct) ==
  LET s == round2(DivOnePlusRate(inv.total, pct))
  IN [inv EXCEPT !.subtotal = s, !.tax_amount = round2(MulRate(OrZero(s), pct))]

handleUpdateResultPaged(inv0, field, value, pct) ==
  LET inv == [inv0 EXCEPT ![field] = value]
  IN IF field = "subtotal" /\ IsNumber(inv.subtotal)
       THEN LET t == round2(MulRate(inv.subtotal, pct))
            IN [inv EXCEPT !.tax_amount = t,
                           !.total = round2(Add(inv.subtotal, OrZero(t)))]
     ELSE IF field = "tax_amount" /\ IsNumber(inv.tax_amount)
       THEN LET s == round2(DivRate(inv.tax_amount, pct))
            IN [inv EXCEPT !.subtotal = s,
                           !.total = round2(Add(OrZero(s), inv.tax_amount))]
     ELSE IF field = "total" /\ IsNumber(inv.total)
       THEN PagedTotalEdit(inv, pct)
     ELSE inv

\* first block: total from subtotal + tax
GatedSumBlock(inv) ==
  [inv EXCEPT !.total = round2(Add(OrZero(IF IsNumber(inv.subtotal) THEN inv.subtotal ELSE Undef),
                                   OrZero(IF IsNumber(inv.tax_amount) THEN inv.tax_amount ELSE Undef)))]

\* second block: subtotal from total - tax
GatedDifferenceBlock(inv) ==
  [inv EXCEPT !.subtotal = round2(Sub(OrZero(IF IsNumber(inv.total) THEN inv.total ELSE Undef),
                                      OrZero(IF IsNumber(inv.tax_amount) THEN inv.tax_amount ELSE Undef)))]

\* third block: tax-exclusive reconstruction when no tax is set
GatedReconstructBlock(inv, pct) ==
  LET total == OrZero(IF IsNumber(inv.total) THEN inv.total ELSE Undef)
      s == round2(DivOnePlusRate(total, pct))
  IN [inv EXCEPT !.subtotal = s, !.tax_amount = round2(Sub(total, FalsyToZero(s)))]

handleUpdateResultGated(inv0, field, value, pct) ==
  LET inv == [inv0 EXCEPT ![field] = value]
      a == IF field \in {"subtotal", "tax_amount"} THEN GatedSumBlock(inv) ELSE inv
      b == IF field \in {"total", "tax_amount"} THEN GatedDifferenceBlock(a) ELSE a
  IN IF field = "total" /\ Falsy(b.tax_amount) THEN GatedReconstructBlock(b, pct) ELSE b

\* the updater without the idx === index test of its map: every record is edited
handleUpdateResultEveryRecord(revision, prev, index, field, value, pct) ==
  [i \in 1..Len(prev) |->
     IF revision = "paged" THEN handleUpdateResultPaged(prev[i], field, value, pct)
     ELSE handleUpdateResultGated(prev[i], field, value, pct)]

\* setResults(prev => prev.map(...)): only the record at index is replaced
handleUpdateResult(revision, prev, index, field, value, pct) ==
  [i \in 1..Len(prev) |->
     IF i # index THEN prev[i]
     ELSE IF revision = "paged" THEN handleUpdateResultPaged(prev[i], field, value, pct)
     ELSE handleUpdateResultGated(prev[i], field, value, pct)]

(***************************************************************************)
(* Records.  A record carries the fields the handlers read or write.       *)
(***************************************************************************)
NoSupplier == 0

InvoiceData(id, name, s, t, tot) ==
  [id |-> id, supplier_name |-> name, subtotal |-> s, tax_amount |-> t, total |-> tot,
   supplier_id |-> NoSupplier]

\* the amounts a user types: small ones around the half cent, and 10, 100, 200
EditAmounts == {5 * k : k \in 0..MaxAmountSteps} \cup {10000, 100000, 200000}

\* ResultsTable hands over parseFloat(text) or undefined
EditValues == {Fin(a) : a \in EditAmounts} \cup {NaN, Undef}

\* tax rates in percent: the default 0.18, and 0 and 0.17 from the server
VatRates == {0, 17, 18}

DefaultVatRate == 18

Revisions == {"paged", "gated"}

(***************************************************************************)
(* State.  results, vatRate, error, loading are React state of the page;   *)
(* allResults, startingPoint, totalFiles, allErrors are the locals of one  *)
(* run of handleFilesSelected and extPc is its position.  edited and the   *)
(* variables from pagesReceived to arrivedErrors are history variables of  *)
(* the current run: they record what happened and influence nothing.       *)
(* savedInvoiceIds, customerId, saving, conflicts, processing and          *)
(* selectedFiles are React state of the gated revision; tasks holds the    *)
(* invocations of handleSaveSingle and handleSaveAll that are suspended at *)
(* an await, crashed says that a state updater threw and React unmounted   *)
(* the page, and lastCall is the request with which the latest step began  *)
(* a commit or the rows of the write it resumed one with, if it did        *)
(* either (a history variable).                                            *)
(***************************************************************************)
VARIABLES rev, results, vatRate, edited, error, loading,
          extPc, allResults, startingPoint, totalFiles, allErrors,
          pagesReceived, lastPage, advancing, monotone, handledSum,
          requestsIssued, lastRequest, arrivedResults, arrivedErrors,
          savedInvoiceIds, customerId, saving, conflicts, processing, selectedFiles,
          crashed, tasks, lastCall

\* uploadFilesToS3: progress is its progress array, uploadIndex its loop
\* variable i, uploadPc the await it is suspended at, and uploaded the files
\* whose upload resolved, in that order (s3Paths, or filePaths); uploadRev is
\* the revision of the function
VARIABLES uploadRev, progress, uploadPc, uploadIndex, uploaded

uploadVars == <<uploadRev, progress, uploadPc, uploadIndex, uploaded>>

recordVars == <<rev, results, vatRate, edited>>

extractVars == <<loading, extPc, allResults, startingPoint, totalFiles, allErrors,
                 pagesReceived, lastPage, advancing, monotone, handledSum,
                 requestsIssued, lastRequest, arrivedResults, arrivedErrors>>

commitVars == <<savedInvoiceIds, customerId, saving, conflicts, processing, selectedFiles,
                crashed, tasks, lastCall>>

vars == <<recordVars, error, extractVars, commitVars, uploadVars>>

\* the error banner: nothing, a thrown error's message, or a count of page errors
NoError == [kind |-> "null", text |-> "", n |-> 0]

ThrownError(message) == [kind |-> "thrown", text |-> message, n |-> 0]

\* `Processing completed with ${n} error(s)`
PageErrorCount(n) == [kind |-> "count", text |-> "Processing completed with error(s)", n |-> n]

\* headers of the pages of a run: no page yet, and no request yet
NoPage == [total_files |-> 0, files_handled |-> 0]

NoRequest == -1

\* uploadFilesToS3 has not been called
UploadIdle ==
  /\ uploadRev = "s3"
  /\ progress = <<>>
  /\ uploadPc = "idle"
  /\ uploadIndex = 0
  /\ uploaded = <<>>

ExtractIdle ==
  /\ loading = FALSE
  /\ extPc = "idle"
  /\ allResults = <<>>
  /\ startingPoint = 0
  /\ totalFiles = 0
  /\ allErrors = <<>>
  /\ pagesReceived = 0
  /\ lastPage = NoPage
  /\ advancing = TRUE
  /\ monotone = TRUE
  /\ handledSum = 0
  /\ requestsIssued = 0
  /\ lastRequest = NoRequest
  /\ arrivedResults = <<>>
  /\ arrivedErrors = <<>>

\* savedInvoiceIds[i] = NotSaved stands for a missing key
NotSaved == 0

\* customerId === ''
NoCustomer == 0

\* conflicts === null with the modal hidden, and a report on display
NoConflicts == [has_conflicts |-> FALSE]

ConflictReport == [has_conflicts |-> TRUE]

\* the latest step began no commit and resumed none from its write
NoCall ==
  [request |-> "none", op |-> "none", index |-> 0, result |-> "none", invoices |-> {},
   rows |-> <<>>]

CommitIdle ==
  /\ savedInvoiceIds = [i \in 1..MaxRecords |-> NotSaved]
  /\ customerId = NoCustomer
  /\ saving = FALSE
  /\ conflicts = NoConflicts
  /\ processing = FALSE
  /\ selectedFiles = 0
  /\ crashed = FALSE
  /\ tasks = EmptyBag
  /\ lastCall = NoCall

(***************************************************************************)
(* The reconciler on its own: one extracted record, edited field by field. *)
(***************************************************************************)
\* what extraction may deliver: the soft invariant is not enforced on ingestion
IngestedRecords ==
  {InvoiceData(1, "a", s, t, tot) :
     s \in {Undef, Fin(100000)}, t \in {Undef, Fin(0), Fin(18000)}, tot \in {Undef, Fin(118000)}}

InitReconcile ==
  /\ rev \in Revisions
  /\ vatRate \in VatRates
  /\ \E r \in IngestedRecords : results = <<r>>
  /\ edited = [i \in 1..Len(results) |-> 0]
  /\ error = NoError
  /\ ExtractIdle
  /\ CommitIdle
  /\ UploadIdle

UpdateMoneyField ==
  /\ \E index \in 1..Len(results), field \in MoneyFields, value \in EditValues :
       /\ edited[index] < MaxEdits
       /\ results' = handleUpdateResult(rev, results, index, field, value, vatRate)
       /\ edited' = [edited EXCEPT ![index] = @ + 1]
  /\ UNCHANGED <<rev, uploadVars, vatRate, error, extractVars, commitVars>>

NextReconcile == UpdateMoneyField

SpecReconcile == InitReconcile /\ [][NextReconcile]_vars

AllNumeric(r) ==
  IsFiniteNumber(r.subtotal) /\ IsFiniteNumber(r.tax_amount) /\ IsFiniteNumber(r.total)

Abs(n) == IF n < 0 THEN -n ELSE n

\* |total - (subtotal + tax)| < 0.005, in thousandths
ThreeWay(r) == Abs(r.total.v - (r.subtotal.v + r.tax_amount.v)) < 5

\* C2: after any sequence of money-field edits, under any tax rate, every
\* edited record whose subtotal, tax and total are all numeric satisfies
\* |total - (subtotal + tax)| < 0.005.
C2_ThreeWayInvariant ==
  \A i \in 1..Len(results) :
    (edited[i] > 0 /\ AllNumeric(results[i])) => ThreeWay(results[i])

(***************************************************************************)
(* Paged extraction: handleFilesSelected of the paged revision.  The       *)
(* server's page responses are inputs; nothing constrains them.            *)
(***************************************************************************)
RecordIds == {1, 2}

Names == {"a", "b"}

ExtractedRecord(id) == InvoiceData(id, "a", Fin(100000), Fin(18000), Fin(118000))

\* a page's records: none, one, or two in an order that is not the id order
PageResultChoices ==
  {<<>>, <<ExtractedRecord(1)>>, <<ExtractedRecord(2), ExtractedRecord(1)>>}

\* a page's error strings: none, or one naming the offset the page started at
PageErrorChoices(offset) == {<<>>, <<[failedAt |-> offset]>>}

\* response.vat_rate is optional
NoVatRate == -1

PageVatRates == {NoVatRate, 17}

\* what a page carries besides its header: nothing, an error alone, a record
\* with the rate, two records with the rate and an error
PageBodies(offset) ==
  {body \in [results : PageResultChoices, errors : PageErrorChoices(offset),
             vat_rate : PageVatRates] :
     /\ (body.vat_rate # NoVatRate) = (Len(body.results) > 0)
     /\ Len(body.results) = 1 => Len(body.errors) = 0
     /\ Len(body.results) = 2 => Len(body.errors) = 1}

Pages(offset) ==
  {[results |-> body.results, errors |-> body.errors, vat_rate |-> body.vat_rate,
    total_files |-> total, files_handled |-> handled] :
     body \in PageBodies(offset), total \in 0..MaxTotalFiles, handled \in 0..MaxHandled}

PageHeader(page) == [total_files |-> page.total_files, files_handled |-> page.files_handled]

InitExtract ==
  /\ rev = "paged"
  /\ results = <<>>
  /\ vatRate = DefaultVatRate
  /\ edited = <<>>
  /\ error = NoError
  /\ ExtractIdle
  /\ CommitIdle
  /\ UploadIdle

\* the catch and finally blocks: the message is shown, loading ends
ExtractionFails(message) ==
  /\ error' = ThrownError(message)
  /\ loading' = FALSE
  /\ extPc' = "failed"

\* the handler up to its first await; selection is what FileUpload passed
handleFilesSelected ==
  /\ rev = "paged"
  /\ ~loading
  /\ Len(results) = 0
  /\ results' = <<>>
  /\ allResults' = <<>>
  /\ startingPoint' = 0
  /\ totalFiles' = 0
  /\ allErrors' = <<>>
  /\ pagesReceived' = 0
  /\ lastPage' = NoPage
  /\ advancing' = TRUE
  /\ monotone' = TRUE
  /\ handledSum' = 0
  /\ arrivedResults' = <<>>
  /\ arrivedErrors' = <<>>
  /\ \E selection \in {"files", "path", "none"} :
       CASE selection = "files" ->
              /\ error' = NoError
              /\ loading' = TRUE
              /\ extPc' = "uploading"
              /\ requestsIssued' = 0
              /\ lastRequest' = NoRequest
         [] selection = "path" ->
              /\ error' = NoError
              /\ loading' = TRUE
              /\ extPc' = "requesting"
              /\ requestsIssued' = 1
              /\ lastRequest' = 0
         [] selection = "none" ->
              /\ ExtractionFails("No files or path provided")
              /\ requestsIssued' = 0
              /\ lastRequest' = NoRequest
  /\ UNCHANGED <<rev, uploadVars, vatRate, edited, commitVars>>

\* a loop turn that calls processInvoicesWithLLM for two pages at once
IssueRequestAndPrefetch(issued) == issued + 2

\* await processInvoicesWithLLM(...): one request per turn of the loop
IssueRequest(issued) == issued + 1

\* uploadFilesToS3 resolved: the first extraction request goes out
UploadResolved ==
  /\ extPc = "uploading"
  /\ extPc' = "requesting"
  /\ requestsIssued' = IssueRequest(requestsIssued)
  /\ lastRequest' = startingPoint
  /\ UNCHANGED <<recordVars, uploadVars, error, loading, allResults, startingPoint, totalFiles,
                 allErrors, pagesReceived, lastPage, advancing, monotone, handledSum,
                 arrivedResults, arrivedErrors, commitVars>>

UploadThrows ==
  /\ extPc = "uploading"
  /\ ExtractionFails("upload failed")
  /\ UNCHANGED <<recordVars, uploadVars, allResults, startingPoint, totalFiles, allErrors,
                 pagesReceived, lastPage, advancing, monotone, handledSum,
                 requestsIssued, lastRequest, arrivedResults, arrivedErrors, commitVars>>

\* the assignment without its totalFiles === 0 test: every page sets the total
LatchTotalFilesEveryPage(current, page) == page.total_files

\* if (totalFiles === 0) totalFiles = response.total_files
LatchTotalFiles(current, page) == IF current = 0 THEN page.total_files ELSE current

\* the mutation of the append that puts the newest page first
PushResultsNewestFirst(all, page) == page.results \o all

\* allResults.push(...response.results)
PushResults(all, page) == all \o page.results

\* the mutation of the loop condition that is off by one
LoopContinuesInclusive(next, total) == next <= total

\* while (startingPoint < totalFiles)
LoopContinues(next, total) == next < total

\* a cursor that advances by the number of records received
AdvanceByRecords(cursor, page) == cursor + Len(page.results)

\* startingPoint += response.files_handled
Advance(cursor, page) == cursor + page.files_handled

\* one turn of the do-while loop: the awaited response is applied and the
\* loop condition decides between the next request and completion
PageResponse ==
  /\ extPc = "requesting"
  /\ \E page \in Pages(startingPoint) :
       LET total == LatchTotalFiles(totalFiles, page)
           accumulated == PushResults(allResults, page)
           errs == allErrors \o page.errors
           next == Advance(startingPoint, page)
       IN /\ totalFiles' = total
          /\ allResults' = accumulated
          /\ results' = accumulated
          /\ vatRate' = IF page.vat_rate # NoVatRate THEN page.vat_rate ELSE vatRate
          /\ allErrors' = errs
          /\ startingPoint' = next
          /\ pagesReceived' = pagesReceived + 1
          /\ lastPage' = PageHeader(page)
          /\ advancing' = (advancing /\ page.files_handled >= 1)
          /\ monotone' = (monotone /\ (pagesReceived = 0 \/ page.total_files >= lastPage.total_files))
          /\ handledSum' = handledSum + page.files_handled
          /\ arrivedResults' = arrivedResults \o page.results
          /\ arrivedErrors' = arrivedErrors \o page.errors
          /\ IF LoopContinues(next, total)
               THEN /\ requestsIssued < MaxRequests
                    /\ requestsIssued' = IssueRequest(requestsIssued)
                    /\ lastRequest' = next
                    /\ UNCHANGED <<extPc, error, loading>>
               ELSE /\ extPc' = "completed"
                    /\ error' = IF Len(errs) > 0 THEN PageErrorCount(Len(errs)) ELSE error
                    /\ loading' = FALSE
                    /\ UNCHANGED <<requestsIssued, lastRequest>>
  /\ UNCHANGED <<rev, uploadVars, edited, commitVars>>

\* the mutation of the catch block that also drops the accumulated records
RequestThrowsClearing ==
  /\ extPc = "requesting"
  /\ ExtractionFails("request failed")
  /\ results' = <<>>
  /\ UNCHANGED <<rev, uploadVars, vatRate, edited, allResults, startingPoint, totalFiles, allErrors,
                 pagesReceived, lastPage, advancing, monotone, handledSum,
                 requestsIssued, lastRequest, arrivedResults, arrivedErrors, commitVars>>

\* processInvoicesWithLLM rejects
RequestThrows ==
  /\ extPc = "requesting"
  /\ ExtractionFails("request failed")
  /\ UNCHANGED <<recordVars, uploadVars, allResults, startingPoint, totalFiles, allErrors,
                 pagesReceived, lastPage, advancing, monotone, handledSum,
                 requestsIssued, lastRequest, arrivedResults, arrivedErrors, commitVars>>

\* the paged revision renders the table whenever results is non-empty, also
\* while loading; the gated revision hides it while processing
UpdateTextField ==
  /\ ~crashed
  /\ rev = "gated" => ~processing
  /\ \E index \in 1..Len(results), value \in Names :
       /\ index <= MaxEditIndex
       /\ results' = handleUpdateResult(rev, results, index, "supplier_name", value, vatRate)
  /\ lastCall' = NoCall
  /\ UNCHANGED <<rev, uploadVars, vatRate, edited, error, extractVars, savedInvoiceIds,
                 customerId, saving,
                 conflicts, processing, selectedFiles, crashed, tasks>>

\* the "Upload More Files" button
UploadMoreFiles ==
  /\ rev = "paged"
  /\ Len(results) > 0
  /\ results' = <<>>
  /\ error' = NoError
  /\ UNCHANGED <<rev, uploadVars, vatRate, edited, extractVars, commitVars>>

NextExtract ==
  \/ handleFilesSelected
  \/ UploadResolved
  \/ UploadThrows
  \/ PageResponse
  \/ RequestThrows
  \/ UpdateTextField
  \/ UploadMoreFiles

SpecExtract == InitExtract /\ [][NextExtract]_vars

Max(a, b) == IF a >= b THEN a ELSE b

\* C3 as stated: when every page reports files_handled >= 1 and the reported
\* total never decreases, a completed run has issued at most totalFiles
\* requests.
C3_AtMostTotalFilesRequests ==
  (extPc = "completed" /\ advancing /\ monotone) => requestsIssued <= totalFiles

\* C3 amended: under the same condition a run never issues more than
\* max(1, totalFiles) requests; the do-while loop issues its first request
\* before any total is known.
C3_AtMostTotalFilesOrOneRequest ==
  (advancing /\ monotone) => requestsIssued <= Max(1, totalFiles)

C3_Witness ==
  /\ extPc = "completed"
  /\ advancing
  /\ monotone
  /\ pagesReceived = 2
  /\ requestsIssued = 2
  /\ totalFiles = 2

\* C4: when a run completes, results is the concatenation of every page's
\* records in arrival order and the error list the concatenation of every
\* page's errors.
C4_SessionIsConcatenationOfPages ==
  [][(extPc = "requesting" /\ extPc' = "completed")
       => (results' = arrivedResults' /\ allErrors' = arrivedErrors')]_vars

C4_Witness ==
  /\ extPc = "completed"
  /\ pagesReceived = 2
  /\ results = <<ExtractedRecord(2), ExtractedRecord(1), ExtractedRecord(1)>>
  /\ results = arrivedResults
  /\ allErrors = <<[failedAt |-> 0]>>

\* C5: a page that reports files_handled = 0 while startingPoint < totalFiles
\* ends the run with a fatal error; the request is not issued again.
C5_NonAdvancingPageIsFatal ==
  (pagesReceived >= 1 /\ lastPage.files_handled = 0 /\ startingPoint < totalFiles)
    => extPc = "failed"

\* C6: when an extraction request throws, the run stops: the records
\* accumulated so far stay in the session, the thrown message is shown (not
\* the page-error count), and no further request of that run is issued.
C6_ThrowAbortsRunKeepingRecords ==
  [][/\ (extPc = "requesting" /\ extPc' = "failed")
          => /\ results' = results
             /\ allResults' = allResults
             /\ error' = ThrownError("request failed")
             /\ requestsIssued' = requestsIssued
     /\ (extPc = "failed" /\ requestsIssued' # requestsIssued)
          => (pagesReceived' = 0 /\ requestsIssued' <= 1)]_vars

C6_Witness ==
  /\ extPc = "failed"
  /\ error = ThrownError("request failed")
  /\ pagesReceived = 1
  /\ requestsIssued = 2
  /\ Len(results) = 2
  /\ results = allResults
  /\ Len(allErrors) = 1

(***************************************************************************)
(* The gated revision: single-shot extraction, edits, Start Over, and the  *)
(* two commit handlers.  A handler runs from one await to the next in one  *)
(* step, and a collaborator's answer is an input of the step it resumes.   *)
(* "Add More Files" (handleProcessNewFiles), the removal of selected files *)
(* and the choice of view are not part of this specification.              *)
(***************************************************************************)
InsertedIds == {7}

SupplierIds == {3}

\* null / undefined in a response row
Null == 0

\* the rows of a write response: inserted (with the supplier the server
\* created, if any) and failed
InsertedRow(id, supplier) == [inserted_id |-> id, supplier_id |-> supplier, error |-> ""]

FailedRow == [inserted_id |-> Null, supplier_id |-> Null, error |-> "row failed"]

RowChoices ==
  {InsertedRow(id, sup) : id \in InsertedIds, sup \in SupplierIds \cup {Null}} \cup {FailedRow}

\* the rows of a batch: handleSaveAll reads error to decide, and is_update
\* and inserted_id only to word its message
BatchRowChoices == {InsertedRow(id, Null) : id \in InsertedIds} \cup {FailedRow}

\* the answers to a write of n invoices: no rows at all, or one row each
WriteResponses(op, n) ==
  {<<>>} \cup [1..n -> IF op = "single" THEN RowChoices ELSE BatchRowChoices]

\* what uploadAndProcess answers: up to MaxRecords records, in file order
ProcessResponses ==
  [results : {[i \in 1..n |-> ExtractedRecord(i)] : n \in 0..MaxRecords},
   errors : {<<>>, <<"x failed OCR">>}, vat_rate : {17}]

\* `Please enter a customer ID`, and the summary of a batch write
MessageError(message) == [kind |-> "message", text |-> message, n |-> 0]

RowErrorCount(n) == [kind |-> "rows", text |-> "Completed with error(s)", n |-> n]

InitCommit ==
  /\ rev = "gated"
  /\ results = <<>>
  /\ vatRate = DefaultVatRate
  /\ edited = <<>>
  /\ error = NoError
  /\ ExtractIdle
  /\ CommitIdle
  /\ UploadIdle

\* the hidden file input: with no results the files join the selection
handleFileChange ==
  /\ rev = "gated"
  /\ ~crashed
  /\ Len(results) = 0
  /\ ~processing
  /\ selectedFiles < MaxSelectedFiles
  /\ selectedFiles' = selectedFiles + 1
  /\ error' = NoError
  /\ lastCall' = NoCall
  /\ UNCHANGED <<recordVars, uploadVars, extractVars, savedInvoiceIds, customerId, saving,
                 conflicts,
                 processing, crashed, tasks>>

\* handleStartProcessing up to the await of uploadAndProcess
handleStartProcessing ==
  /\ rev = "gated"
  /\ ~crashed
  /\ Len(results) = 0
  /\ ~processing
  /\ selectedFiles # 0
  /\ error' = NoError
  /\ processing' = TRUE
  /\ results' = <<>>
  /\ lastCall' = NoCall
  /\ UNCHANGED <<rev, uploadVars, vatRate, edited, extractVars, savedInvoiceIds, customerId, saving,
                 conflicts, selectedFiles, crashed, tasks>>

\* uploadAndProcess resolved: setResults(response.results)
StartProcessingResponse ==
  /\ ~crashed
  /\ processing
  /\ \E response \in ProcessResponses :
       /\ results' = response.results
       /\ vatRate' = IF response.vat_rate # NoVatRate THEN response.vat_rate ELSE vatRate
       /\ error' = IF Len(response.errors) > 0
                     THEN PageErrorCount(Len(response.errors)) ELSE error
  /\ selectedFiles' = 0
  /\ processing' = FALSE
  /\ lastCall' = NoCall
  /\ UNCHANGED <<rev, uploadVars, edited, extractVars, savedInvoiceIds, customerId, saving,
                 conflicts,
                 crashed, tasks>>

StartProcessingThrows ==
  /\ ~crashed
  /\ processing
  /\ error' = ThrownError("Processing failed")
  /\ processing' = FALSE
  /\ lastCall' = NoCall
  /\ UNCHANGED <<recordVars, uploadVars, extractVars, savedInvoiceIds, customerId, saving,
                 conflicts,
                 selectedFiles, crashed, tasks>>

\* the results section, with its buttons, is rendered
ResultsShown == rev = "gated" /\ ~crashed /\ Len(results) > 0 /\ ~processing

\* the customer <select>
SelectCustomer ==
  /\ ResultsShown
  /\ \E c \in {NoCustomer, 1} : customerId' = c
  /\ lastCall' = NoCall
  /\ UNCHANGED <<recordVars, uploadVars, error, extractVars, savedInvoiceIds, saving, conflicts,
                 processing, selectedFiles, crashed, tasks>>

\* the "Start Over" button
StartOver ==
  /\ ResultsShown
  /\ results' = <<>>
  /\ error' = NoError
  /\ savedInvoiceIds' = [i \in 1..MaxRecords |-> NotSaved]
  /\ lastCall' = NoCall
  /\ UNCHANGED <<rev, uploadVars, vatRate, edited, extractVars, customerId, saving, conflicts,
                 processing, selectedFiles, crashed, tasks>>

\* the "Close" button of the conflict modal
CloseConflictModal ==
  /\ ~crashed
  /\ conflicts # NoConflicts
  /\ conflicts' = NoConflicts
  /\ lastCall' = NoCall
  /\ UNCHANGED <<recordVars, uploadVars, error, extractVars, savedInvoiceIds, customerId, saving,
                 processing, selectedFiles, crashed, tasks>>

\* an invocation suspended at an await: index is the argument of
\* handleSaveSingle, sent the number of invoices in payload, pc the request
\* that is awaited, check what its conflict check came to, and checks and
\* writes the requests of either kind it has issued so far
Attempt(op, index, sent, pc) ==
  [op |-> op, index |-> index, sent |-> sent, pc |-> pc,
   check |-> IF pc = "check" THEN "pending" ELSE "skipped",
   checks |-> IF pc = "check" THEN 1 ELSE 0,
   writes |-> IF pc = "write" THEN 1 ELSE 0]

\* the invocation goes on from its conflict check to await saveInvoicesBatch
CallsWrite(task, result) ==
  [task EXCEPT !.pc = "write", !.check = result, !.writes = @ + 1]

\* tasks is a bag: the suspended invocations have no order
Suspend(bag, task) == bag (+) SetToBag({task})

Resume(bag, task) == bag (-) SetToBag({task})

\* the request an invocation starts with: invoices are the indices of the
\* records in it
Issued(task, invoices) ==
  [request |-> task.pc, op |-> task.op, index |-> task.index, result |-> "issued",
   invoices |-> invoices, rows |-> <<>>]

\* the rows saveInvoicesBatch resolved with
Answer(task, rows) ==
  [request |-> task.pc, op |-> task.op, index |-> task.index, result |-> "rows",
   invoices |-> {}, rows |-> rows]

\* handleSaveSingle without its !customerId test
handleSaveSingleWithoutCustomerTest ==
  /\ ResultsShown
  /\ \E index \in 1..Len(results) :
       LET task == Attempt("single", index, 1, "check")
       IN /\ BagCardinality(tasks) < MaxInFlight
          /\ saving' = TRUE
          /\ error' = NoError
          /\ tasks' = Suspend(tasks, task)
          /\ lastCall' = Issued(task, {index})
  /\ UNCHANGED <<recordVars, uploadVars, extractVars, savedInvoiceIds, customerId, conflicts,
                 processing, selectedFiles, crashed>>

\* handleSaveSingle up to the await of checkInvoiceConflicts; GridView calls
\* it with the index of a rendered record and knows nothing of saving
handleSaveSingle ==
  /\ ResultsShown
  /\ \E index \in 1..Len(results) :
       IF customerId = NoCustomer
         THEN /\ error' = MessageError("Please enter a customer ID")
              /\ lastCall' = NoCall
              /\ UNCHANGED <<saving, tasks>>
         ELSE LET task == Attempt("single", index, 1, "check")
              IN /\ BagCardinality(tasks) < MaxInFlight
                 /\ saving' = TRUE
                 /\ error' = NoError
                 /\ tasks' = Suspend(tasks, task)
                 /\ lastCall' = Issued(task, {index})
  /\ UNCHANGED <<recordVars, uploadVars, extractVars, savedInvoiceIds, customerId, conflicts,
                 processing, selectedFiles, crashed>>

\* results.filter((_, idx) => !savedInvoiceIds[idx])
Unsaved(saved, n) == {idx \in 1..n : saved[idx] = NotSaved}

\* handleSaveAll up to its first await; the button is disabled without a
\* customer and while saving
handleSaveAll ==
  /\ ResultsShown
  /\ ~saving
  /\ customerId # NoCustomer
  /\ BagCardinality(tasks) < MaxInFlight
  /\ saving' = TRUE
  /\ error' = NoError
  /\ LET unsavedInvoices == Unsaved(savedInvoiceIds, Len(results))
         task == Attempt("all", 0, Len(results), IF unsavedInvoices # {} THEN "check" ELSE "write")
     IN /\ tasks' = Suspend(tasks, task)
        /\ lastCall' = Issued(task, IF unsavedInvoices # {} THEN unsavedInvoices
                                                            ELSE 1..Len(results))
  /\ UNCHANGED <<recordVars, uploadVars, extractVars, savedInvoiceIds, customerId, conflicts,
                 processing, selectedFiles, crashed>>

\* what checkInvoiceConflicts comes back with
CheckResults == {"clear", "conflict", "rejected"}

\* the conflict branch without its return
ConflictCheckResponseWithoutReturn ==
  /\ ~crashed
  /\ \E task \in BagToSet(tasks), result \in CheckResults :
       /\ task.pc = "check"
       /\ IF result = "rejected"
            THEN /\ error' = ThrownError("request failed")
                 /\ saving' = FALSE
                 /\ tasks' = Resume(tasks, task)
                 /\ UNCHANGED conflicts
          ELSE IF result = "conflict"
            THEN /\ conflicts' = ConflictReport
                 /\ saving' = FALSE
                 /\ tasks' = Suspend(Resume(tasks, task), CallsWrite(task, result))
                 /\ UNCHANGED error
          ELSE /\ tasks' = Suspend(Resume(tasks, task), CallsWrite(task, result))
               /\ UNCHANGED <<error, saving, conflicts>>
  /\ lastCall' = NoCall
  /\ UNCHANGED <<recordVars, uploadVars, extractVars, savedInvoiceIds, customerId, processing,
                 selectedFiles, crashed>>

\* checkInvoiceConflicts settled, in handleSaveSingle and in handleSaveAll
\* alike: a rejection goes to catch and finally, a conflict shows the report
\* and returns, and otherwise saveInvoicesBatch is called
ConflictCheckResponse ==
  /\ ~crashed
  /\ \E task \in BagToSet(tasks), result \in CheckResults :
       /\ task.pc = "check"
       /\ IF result = "rejected"
            THEN /\ error' = ThrownError("request failed")
                 /\ saving' = FALSE
                 /\ tasks' = Resume(tasks, task)
                 /\ UNCHANGED conflicts
          ELSE IF result = "conflict"
            THEN /\ conflicts' = ConflictReport
                 /\ saving' = FALSE
                 /\ tasks' = Resume(tasks, task)
                 /\ UNCHANGED error
          ELSE /\ tasks' = Suspend(Resume(tasks, task), CallsWrite(task, result))
               /\ UNCHANGED <<error, saving, conflicts>>
  /\ lastCall' = NoCall
  /\ UNCHANGED <<recordVars, uploadVars, extractVars, savedInvoiceIds, customerId, processing,
                 selectedFiles, crashed>>

\* a catch block that calls saveInvoicesBatch once more after a rejection
WriteRejectedRetrying ==
  /\ ~crashed
  /\ \E task \in BagToSet(tasks) :
       /\ task.pc = "write"
       /\ tasks' = IF task.writes < 2
                     THEN Suspend(Resume(tasks, task), [task EXCEPT !.writes = @ + 1])
                   ELSE Resume(tasks, task)
       /\ saving' = (task.writes < 2 /\ saving)
  /\ error' = ThrownError("request failed")
  /\ lastCall' = NoCall
  /\ UNCHANGED <<recordVars, uploadVars, extractVars, savedInvoiceIds, customerId, conflicts,
                 processing,
                 selectedFiles, crashed>>

\* saveInvoicesBatch rejected, in either handler: catch and finally
WriteRejected ==
  /\ ~crashed
  /\ \E task \in BagToSet(tasks) :
       /\ task.pc = "write"
       /\ tasks' = Resume(tasks, task)
  /\ error' = ThrownError("request failed")
  /\ saving' = FALSE
  /\ lastCall' = NoCall
  /\ UNCHANGED <<recordVars, uploadVars, extractVars, savedInvoiceIds, customerId, conflicts,
                 processing,
                 selectedFiles, crashed>>

\* (updated[index] as any).supplier_id = ... on the latest results
MergeSupplier(prev, index, supplier) ==
  [j \in 1..Len(prev) |-> IF j = index THEN [prev[j] EXCEPT !.supplier_id = supplier] ELSE prev[j]]

\* saveInvoicesBatch resolved in handleSaveSingle
SaveSingleWriteResponse ==
  /\ ~crashed
  /\ \E task \in BagToSet(tasks) :
       /\ task.op = "single"
       /\ task.pc = "write"
       /\ \E rows \in WriteResponses("single", task.sent) :
            LET index == task.index
                answered == Len(rows) > 0
            IN /\ lastCall' = Answer(task, rows)
               /\ tasks' = Resume(tasks, task)
               /\ IF answered /\ rows[1].error # ""
                    THEN \* throw new Error(resp.results[0].error)
                         /\ error' = ThrownError(rows[1].error)
                         /\ saving' = FALSE
                         /\ UNCHANGED <<results, savedInvoiceIds, crashed>>
                  ELSE IF answered /\ rows[1].inserted_id # Null
                            /\ rows[1].supplier_id # Null /\ index > Len(results)
                    THEN \* updated[index] is undefined: the updater throws
                         \* while React renders, and the page is unmounted
                         /\ crashed' = TRUE
                         /\ UNCHANGED <<results, savedInvoiceIds, error, saving>>
                  ELSE IF answered /\ rows[1].inserted_id # Null
                    THEN /\ savedInvoiceIds' =
                              [savedInvoiceIds EXCEPT ![index] = rows[1].inserted_id]
                         /\ results' = IF rows[1].supplier_id # Null
                                         THEN MergeSupplier(results, index, rows[1].supplier_id)
                                         ELSE results
                         /\ saving' = FALSE
                         /\ UNCHANGED <<error, crashed>>
                  ELSE /\ saving' = FALSE
                       /\ UNCHANGED <<results, savedInvoiceIds, error, crashed>>
  /\ UNCHANGED <<rev, uploadVars, vatRate, edited, extractVars, customerId, conflicts, processing,
                 selectedFiles>>

\* resp.results.filter(r => r.error).length
ErrorCount(rows) == Cardinality({j \in 1..Len(rows) : rows[j].error # ""})

\* the batch write that clears the session whatever the rows say
SaveAllWriteResponseAlwaysClearing ==
  /\ ~crashed
  /\ \E task \in BagToSet(tasks) :
       /\ task.op = "all"
       /\ task.pc = "write"
       /\ \E rows \in WriteResponses("all", task.sent) :
            /\ lastCall' = Answer(task, rows)
            /\ tasks' = Resume(tasks, task)
            /\ IF Len(rows) > 0
                 THEN /\ results' = <<>>
                      /\ selectedFiles' = 0
                      /\ savedInvoiceIds' = [j \in 1..MaxRecords |-> NotSaved]
                      /\ error' = NoError
               ELSE UNCHANGED <<results, selectedFiles, savedInvoiceIds, error>>
  /\ saving' = FALSE
  /\ UNCHANGED <<rev, uploadVars, vatRate, edited, extractVars, customerId, conflicts,
                 processing, crashed>>

\* saveInvoicesBatch resolved in handleSaveAll
SaveAllWriteResponse ==
  /\ ~crashed
  /\ \E task \in BagToSet(tasks) :
       /\ task.op = "all"
       /\ task.pc = "write"
       /\ \E rows \in WriteResponses("all", task.sent) :
            /\ lastCall' = Answer(task, rows)
            /\ tasks' = Resume(tasks, task)
            /\ IF Len(rows) > 0 /\ ErrorCount(rows) = 0
                 THEN /\ results' = <<>>
                      /\ selectedFiles' = 0
                      /\ savedInvoiceIds' = [j \in 1..MaxRecords |-> NotSaved]
                      /\ error' = NoError
               ELSE IF Len(rows) > 0
                 THEN /\ error' = RowErrorCount(ErrorCount(rows))
                      /\ UNCHANGED <<results, selectedFiles, savedInvoiceIds>>
               ELSE UNCHANGED <<results, selectedFiles, savedInvoiceIds, error>>
  /\ saving' = FALSE
  /\ UNCHANGED <<rev, uploadVars, vatRate, edited, extractVars, customerId, conflicts,
                 processing, crashed>>

NextCommit ==
  \/ handleFileChange
  \/ handleStartProcessing
  \/ StartProcessingResponse
  \/ StartProcessingThrows
  \/ SelectCustomer
  \/ UpdateTextField
  \/ StartOver
  \/ CloseConflictModal
  \/ handleSaveSingle
  \/ handleSaveAll
  \/ ConflictCheckResponse
  \/ WriteRejected
  \/ SaveSingleWriteResponse
  \/ SaveAllWriteResponse

SpecCommit == InitCommit /\ [][NextCommit]_vars

(***************************************************************************)
(* Claims about the commit handlers.                                       *)
(***************************************************************************)
\* the latest step resumed handleSaveAll / handleSaveSingle with the rows
\* of its write
CommitAllAnswered(call) == call.request = "write" /\ call.op = "all" /\ call.result = "rows"

CommitOneAnswered(call) == call.request = "write" /\ call.op = "single" /\ call.result = "rows"

NoIdentifiers == [i \in 1..MaxRecords |-> NotSaved]

\* C1: in commitOne and in commitAll alike, an attempt whose conflict check
\* returned hasConflicts = true never calls saveInvoicesBatch: every write
\* request in flight belongs to an attempt whose check came back clear, or
\* (in commitAll) that had no unsaved record to check.
C1_ConflictBlocksWrite ==
  \A task \in BagToSet(tasks) : task.pc = "write" => task.check \in {"clear", "skipped"}

\* a conflict was reported, the attempt is over and nothing is in flight
C1_Witness == conflicts = ConflictReport /\ tasks = EmptyBag /\ ~saving /\ Len(results) > 0

\* the records whose row, by position, carries an error
FailedRecords(records, rows) ==
  LET failed[j \in 0..Len(records)] ==
        IF j = 0 THEN <<>>
        ELSE IF j <= Len(rows) /\ rows[j].error # "" THEN Append(failed[j - 1], records[j])
        ELSE failed[j - 1]
  IN failed[Len(records)]

\* C7: after commitAll receives a write response with at least one error
\* row, the session is non-empty and holds exactly the records whose row
\* was not inserted or updated.
C7_OnlyFailedRecordsRemain ==
  [][(CommitAllAnswered(lastCall') /\ ErrorCount(lastCall'.rows) > 0)
       => /\ Len(results') > 0
          /\ results' = FailedRecords(results, lastCall'.rows)]_vars

\* C8 as stated: after commitAll receives a write response with zero row
\* errors the record list and the identifier mapping are empty, and
\* commitAll never clears the session when a row has an error.
C8_ZeroErrorsClearSession ==
  [][CommitAllAnswered(lastCall')
       => IF ErrorCount(lastCall'.rows) = 0
            THEN results' = <<>> /\ savedInvoiceIds' = NoIdentifiers
            ELSE results' = results /\ savedInvoiceIds' = savedInvoiceIds]_vars

\* C8, amended: after commitAll receives a write response with at least one
\* row and zero row errors the record list and the identifier mapping are
\* empty; a response with a row error, or with no rows at all, leaves both
\* as they were.
C8_AnsweredZeroErrorsClearSession ==
  [][CommitAllAnswered(lastCall')
       => IF Len(lastCall'.rows) > 0 /\ ErrorCount(lastCall'.rows) = 0
            THEN results' = <<>> /\ savedInvoiceIds' = NoIdentifiers
            ELSE results' = results /\ savedInvoiceIds' = savedInvoiceIds]_vars

\* a batch of two came back with two rows and no error, and the session is
\* cleared
C8_Witness ==
  /\ CommitAllAnswered(lastCall)
  /\ Len(lastCall.rows) = 2
  /\ ErrorCount(lastCall.rows) = 0
  /\ results = <<>>
  /\ savedInvoiceIds = NoIdentifiers

\* C9: no conflict-check request of commitOne or commitAll contains a
\* record whose index is in the identifier mapping when the request is built.
C9_CheckedRecordsAreUnsaved ==
  (lastCall.request = "check" /\ lastCall.result = "issued")
    => \A i \in lastCall.invoices : savedInvoiceIds[i] = NotSaved

\* C10: after commitOne(index) whose conflict check was clear and whose
\* write reports an inserted id without error, the mapping maps index to
\* that id, the record at index carries the returned supplier id if one was
\* returned, and no other mapping entry and no other record changes.
C10_CommitOneMergesAtIndexOnly ==
  [][(/\ CommitOneAnswered(lastCall')
      /\ Len(lastCall'.rows) > 0
      /\ lastCall'.rows[1].error = ""
      /\ lastCall'.rows[1].inserted_id # Null)
       => LET index == lastCall'.index
              row == lastCall'.rows[1]
          IN /\ savedInvoiceIds'[index] = row.inserted_id
             /\ \A j \in 1..MaxRecords : j # index => savedInvoiceIds'[j] = savedInvoiceIds[j]
             /\ Len(results') = Len(results)
             /\ \A j \in 1..Len(results) : j # index => results'[j] = results[j]
             /\ row.supplier_id # Null
                  => /\ index <= Len(results')
                     /\ results'[index] = [results[index] EXCEPT !.supplier_id = row.supplier_id]
             /\ (row.supplier_id = Null /\ index <= Len(results))
                  => results'[index] = results[index]]_vars

\* C11: after a commitAll write whose response reports an inserted id for
\* row i while another row has an error (the session is retained), the
\* identifier mapping maps index i to that id.
C11_InsertedRowsEnterMapping ==
  [][(CommitAllAnswered(lastCall') /\ ErrorCount(lastCall'.rows) > 0)
       => \A i \in 1..Len(lastCall'.rows) :
            lastCall'.rows[i].inserted_id # Null
              => savedInvoiceIds'[i] = lastCall'.rows[i].inserted_id]_vars

(***************************************************************************)
(* The reconciler's rules, edit by edit.  A step is an edit of field to    *)
(* value on the record at index when it takes results to what              *)
(* handleUpdateResult returns for them under the current tax rate.         *)
(***************************************************************************)
Edits(index, field, value) ==
  /\ index \in 1..Len(results)
  /\ results' = handleUpdateResult(rev, results, index, field, value, vatRate)

\* C12: editing total to a number T on a record whose tax_amount is set
\* leaves tax_amount as it was and sets subtotal = round2(T - tax_amount).
C12_TotalEditKeepsTax ==
  [][\A index \in 1..Len(results), T \in EditValues :
       (/\ IsFiniteNumber(T)
        /\ IsFiniteNumber(results[index].tax_amount)
        /\ Edits(index, "total", T))
         => /\ results'[index].tax_amount = results[index].tax_amount
            /\ results'[index].subtotal = round2(Sub(T, results[index].tax_amount))]_vars

\* C13: editing subtotal to a number v under tax rate r sets, on that
\* record, tax_amount = round2(v * r) and total = round2(v + tax_amount).
C13_SubtotalEditDerivesTaxAndTotal ==
  [][\A index \in 1..Len(results), v \in EditValues :
       (IsFiniteNumber(v) /\ Edits(index, "subtotal", v))
         => /\ results'[index].tax_amount = round2(MulRate(v, vatRate))
            /\ results'[index].total = round2(Add(v, results'[index].tax_amount))]_vars

\* C14: editing tax_amount to a number t under a tax rate r other than 0
\* sets, on that record, subtotal = round2(t / r) and
\* total = round2(subtotal + t).
C14_TaxEditDerivesSubtotalAndTotal ==
  [][\A index \in 1..Len(results), t \in EditValues :
       (IsFiniteNumber(t) /\ vatRate # 0 /\ Edits(index, "tax_amount", t))
         => /\ results'[index].subtotal = round2(DivRate(t, vatRate))
            /\ results'[index].total = round2(Add(results'[index].subtotal, t))]_vars

\* C15: editing tax_amount to a number while the tax rate is 0 leaves the
\* record's subtotal exactly as it was: present with the same value, or
\* absent if it was absent.
C15_ZeroRateTaxEditKeepsSubtotal ==
  [][\A index \in 1..Len(results), t \in EditValues :
       (IsFiniteNumber(t) /\ vatRate = 0 /\ Edits(index, "tax_amount", t))
         => results'[index].subtotal = results[index].subtotal]_vars

\* C16: editing total to a number T on a record with no tax_amount set,
\* under tax rate r, sets subtotal = round2(T / (1 + r)) and
\* tax_amount = round2(T - subtotal).
C16_TotalEditReconstructs ==
  [][\A index \in 1..Len(results), T \in EditValues :
       (/\ IsFiniteNumber(T)
        /\ results[index].tax_amount = Undef
        /\ Edits(index, "total", T))
         => /\ results'[index].subtotal = round2(DivOnePlusRate(T, vatRate))
            /\ results'[index].tax_amount = round2(Sub(T, results'[index].subtotal))]_vars

C18_ReconcileIsIdempotent ==
  [][\A index \in 1..Len(results), field \in MoneyFields, value \in EditValues :
       Edits(index, field, value)
         => handleUpdateResult(rev, results', index, field, results'[index][field], vatRate)
              = results']_vars

(***************************************************************************)
(* The gated page after a response with two records: the user edits any    *)
(* field of either record, MaxEdits times in all.                          *)
(***************************************************************************)
InitEdit ==
  /\ rev = "gated"
  /\ vatRate = DefaultVatRate
  /\ results = <<ExtractedRecord(1), ExtractedRecord(2)>>
  /\ edited = [i \in 1..Len(results) |-> 0]
  /\ error = NoError
  /\ ExtractIdle
  /\ CommitIdle
  /\ UploadIdle

\* the fields the table lets the user edit
EditableFields == MoneyFields \cup {"supplier_name"}

\* what handleCellBlur hands over for a field: a parsed number, NaN or
\* undefined for a money field, the text for any other
FieldValues(field) ==
  IF field \in MoneyFields THEN {Fin(10000), Fin(200000), NaN, Undef} ELSE Names

\* the number of edits made in the session
EditCount(count) ==
  LET sum[j \in 0..Len(count)] == IF j = 0 THEN 0 ELSE sum[j - 1] + count[j]
  IN sum[Len(count)]

UpdateField ==
  /\ EditCount(edited) < MaxEdits
  /\ \E index \in 1..Len(results), field \in EditableFields :
       \E value \in FieldValues(field) :
         /\ results' = handleUpdateResult(rev, results, index, field, value, vatRate)
         /\ edited' = [edited EXCEPT ![index] = @ + 1]
  /\ UNCHANGED <<rev, uploadVars, vatRate, error, extractVars, commitVars>>

NextEdit == UpdateField

SpecEdit == InitEdit /\ [][NextEdit]_vars

\* C19: an edit of field f on record i changes no record other than i and
\* leaves the length and the order of the session as they were; when f is
\* not subtotal, tax_amount or total, no field of record i other than f
\* changes.
C19_EditTouchesOneRecord ==
  [][\A index \in 1..Len(results), field \in EditableFields :
       \A value \in FieldValues(field) :
         Edits(index, field, value)
           => /\ Len(results') = Len(results)
              /\ \A j \in 1..Len(results) : j # index => results'[j] = results[j]
              /\ field \notin MoneyFields
                   => \A g \in DOMAIN results[index] \ {field} :
                        results'[index][g] = results[index][g]]_vars

\* record 1 has a new supplier name and an edited total next to the
\* untouched record 2
C19_Witness ==
  /\ Len(results) = 2
  /\ edited = <<2, 0>>
  /\ results[1].supplier_name = "b"
  /\ results[1].total = Fin(200000)
  /\ results[2] = ExtractedRecord(2)

\* C20: within one extraction run, totalFiles is taken from the first page
\* response and never changes afterwards, whatever totals the later pages
\* report.
C20_TotalFilesLatchedOnFirstPage ==
  [][IF pagesReceived' = pagesReceived + 1
       THEN totalFiles' = IF pagesReceived = 0 THEN lastPage'.total_files ELSE totalFiles
     ELSE pagesReceived' = pagesReceived => totalFiles' = totalFiles]_vars

\* the second page of a run reported another total than the first, and the
\* total of the first is kept
C20_Witness ==
  /\ pagesReceived = 2
  /\ totalFiles = 2
  /\ lastPage.total_files = 1

(***************************************************************************)
(* The requests of the page in either revision: the paged extraction run,  *)
(* or the gated commit handlers on a session that uploadAndProcess has     *)
(* delivered.  The actions are those that issue or settle a request, and   *)
(* the choice of the customer that the commit handlers wait for.           *)
(***************************************************************************)
InitRequests ==
  \/ InitExtract
  \/ /\ rev = "gated"
     /\ vatRate = DefaultVatRate
     /\ \E response \in ProcessResponses : results = response.results
     /\ edited = [i \in 1..Len(results) |-> 0]
     /\ error = NoError
     /\ ExtractIdle
     /\ CommitIdle
     /\ UploadIdle

NextRequests ==
  \/ NextExtract
  \/ SelectCustomer
  \/ handleSaveSingle
  \/ handleSaveAll
  \/ ConflictCheckResponse
  \/ WriteRejected
  \/ SaveSingleWriteResponse
  \/ SaveAllWriteResponse

SpecRequests == InitRequests /\ [][NextRequests]_vars

\* handleFilesSelected starts a run
RunStarts == allResults' = <<>> /\ startingPoint' = 0 /\ pagesReceived' = 0 /\ lastRequest' \in {NoRequest, 0}

\* C21: no request is retried automatically.  An invocation of commitOne or
\* commitAll issues at most one conflict-check request and at most one
\* write request; and once an extraction request has failed, no request is
\* issued until the user starts another run.
C21_NoRequestIsRetried ==
  [][/\ \A task \in BagToSet(tasks') : task.checks <= 1 /\ task.writes <= 1
     /\ (extPc = "failed" \/ extPc' = "failed")
          => \/ requestsIssued' = requestsIssued /\ lastRequest' = lastRequest
             \/ RunStarts]_vars

\* a write was rejected and its invocation is over with the error shown
C21_Witness ==
  /\ rev = "gated"
  /\ tasks = EmptyBag
  /\ ~saving
  /\ error = ThrownError("request failed")
  /\ Len(results) > 0

\* C22: at most one extraction page request is in flight at any time: every
\* request but the latest has been answered, and the request in flight
\* carries the cursor as the answers before it left it.
C22_OneRequestInFlight ==
  /\ requestsIssued <= pagesReceived + 1
  /\ extPc = "requesting" => requestsIssued = pagesReceived + 1 /\ lastRequest = startingPoint

\* the request for the second page is in flight after the first page moved
\* the cursor
C22_Witness ==
  /\ extPc = "requesting"
  /\ pagesReceived = 1
  /\ requestsIssued = 2
  /\ lastRequest > 0

\* C23: when a commit attempt is blocked by a conflict, the step that
\* receives the report leaves the records and the identifier mapping as they
\* were, shows the report, and ends the attempt: its invocation is no longer
\* suspended at any request and saving is off.
C23_ConflictLeavesSessionAlone ==
  [][(conflicts = NoConflicts /\ conflicts' = ConflictReport)
       => /\ results' = results
          /\ savedInvoiceIds' = savedInvoiceIds
          /\ ~saving'
          /\ \E task \in BagToSet(tasks) :
               task.pc = "check" /\ tasks' = Resume(tasks, task)]_vars

\* record 1 is saved, and the attempt on record 2 was blocked by a conflict
C23_Witness ==
  /\ conflicts = ConflictReport
  /\ tasks = EmptyBag
  /\ Len(results) = 2
  /\ savedInvoiceIds[1] # NotSaved
  /\ savedInvoiceIds[2] = NotSaved

\* C24: if the conflict check or the write fails with a transport error
\* during commitOne or commitAll, the step that receives the failure shows
\* an error, ends the attempt (so that no write follows a failed check) and
\* leaves the records and the identifier mapping as they were.
C24_TransportErrorLeavesSessionAlone ==
  [][(error # ThrownError("request failed") /\ error' = ThrownError("request failed"))
       => /\ results' = results
          /\ savedInvoiceIds' = savedInvoiceIds
          /\ ~saving'
          /\ \E task \in BagToSet(tasks) : tasks' = Resume(tasks, task)]_vars

\* record 1 is saved, and a request of a later attempt was rejected
C24_Witness ==
  /\ rev = "gated"
  /\ error = ThrownError("request failed")
  /\ tasks = EmptyBag
  /\ ~saving
  /\ Len(results) = 2
  /\ savedInvoiceIds[1] # NotSaved

\* C25: commitOne and commitAll issue neither a conflict-check request nor a
\* write request when no customer is selected: a step that starts an
\* invocation with a request has a customer.
C25_NoCustomerNoRequest ==
  lastCall.result = "issued" => customerId # NoCustomer

\* commitOne was called without a customer: the message is shown and
\* nothing is in flight
C25_Witness ==
  /\ customerId = NoCustomer
  /\ error = MessageError("Please enter a customer ID")
  /\ tasks = EmptyBag
  /\ lastCall = NoCall
  /\ ~saving

\* C26: an edit applied to a record while a commitOne request is in flight
\* is still there after the response has been merged: when a record carries
\* an edit, the step that merges the response leaves the page standing and
\* changes nothing of the latest records but supplier_id.
C26_MergeKeepsEdits ==
  [][(/\ CommitOneAnswered(lastCall')
      /\ \E j \in 1..Len(results) : results[j].supplier_name # ExtractedRecord(j).supplier_name)
       => /\ ~crashed'
          /\ Len(results') = Len(results)
          /\ \A j \in 1..Len(results) :
               \A g \in DOMAIN results[j] \ {"supplier_id"} :
                 results'[j][g] = results[j][g]]_vars

\* C27: in an extraction run the first request carries startingPoint = 0 and
\* every later request carries the sum of files_handled over the pages
\* received before it, not the number of records received.
C27_RequestCarriesFilesHandled ==
  extPc = "requesting"
    => /\ lastRequest = handledSum
       /\ pagesReceived = 0 => lastRequest = 0

\* the first page covered one file and returned two records: the second
\* request starts at 1
C27_Witness ==
  /\ extPc = "requesting"
  /\ pagesReceived = 1
  /\ Len(arrivedResults) = 2
  /\ lastRequest = 1

(***************************************************************************)
(* The commit handlers when every request that was issued is answered or   *)
(* rejected in the end.                                                    *)
(***************************************************************************)
RequestSettles ==
  \/ ConflictCheckResponse
  \/ WriteRejected
  \/ SaveSingleWriteResponse
  \/ SaveAllWriteResponse

SpecCommitFair == SpecCommit /\ WF_vars(RequestSettles)

\* C28: when every issued request eventually completes or fails, every
\* commitOne or commitAll attempt that set the saving flag eventually clears
\* it.
C28_SavingEventuallyCleared == saving ~> ~saving

\* C29: in every reachable state, also when Start Over or a new run is
\* interleaved with a commitOne in flight, every index in the identifier
\* mapping is an index of the current record list.
C29_MappedIndicesAreRecords ==
  \A i \in 1..MaxRecords : savedInvoiceIds[i] # NotSaved => i <= Len(results)

(***************************************************************************)
(* uploadFilesToS3 in its three revisions: "s3" asks for a presigned URL   *)
(* and then puts the file (src/src/services/s3Upload.ts), "dir" and        *)
(* "paths" post the file to the backend and throw on success = false       *)
(* (src/unnamed/part_013 and part_014).  Files are named by their position *)
(* in the selection.                                                       *)
(***************************************************************************)
MaxUploadFiles == 4

UploadRevisions == {"s3", "dir", "paths"}

\* progress entries: { filename, status, error? }
UploadProgress(file, status, message) == [filename |-> file, status |-> status, error |-> message]

\* error instanceof Error ? error.message : 'Upload failed'
UploadErrorMessages == {"network down", "Upload failed"}

\* the first await of a turn of the loop
FirstAwait(revision) == IF revision = "s3" THEN "presign" ELSE "upload"

SetStatus(prog, i, status, message) ==
  [prog EXCEPT ![i] = UploadProgress(prog[i].filename, status, message)]

InitUpload ==
  /\ rev = "paged"
  /\ results = <<>>
  /\ vatRate = DefaultVatRate
  /\ edited = <<>>
  /\ error = NoError
  /\ ExtractIdle
  /\ CommitIdle
  /\ uploadRev \in UploadRevisions
  /\ progress = <<>>
  /\ uploadPc = "idle"
  /\ uploadIndex = 0
  /\ uploaded = <<>>

\* the call, up to the first await: every file pending, then the first one
\* uploading; with no file the loop does not run
uploadFilesToS3 ==
  /\ uploadPc = "idle"
  /\ \E n \in 0..MaxUploadFiles :
       LET pending == [j \in 1..n |-> UploadProgress(j, "pending", "")]
       IN IF n = 0
            THEN /\ progress' = pending
                 /\ uploadPc' = "returned"
                 /\ uploadIndex' = 0
          ELSE /\ progress' = SetStatus(pending, 1, "uploading", "")
               /\ uploadPc' = FirstAwait(uploadRev)
               /\ uploadIndex' = 1
  /\ uploaded' = <<>>
  /\ UNCHANGED <<recordVars, error, extractVars, commitVars, uploadRev>>

\* getPresignedUrl resolved: uploadToS3 is called
PresignResolved ==
  /\ uploadPc = "presign"
  /\ uploadPc' = "put"
  /\ UNCHANGED <<recordVars, error, extractVars, commitVars, uploadRev, progress, uploadIndex,
                 uploaded>>

\* the file is up: its path is pushed, it is marked completed, and the loop
\* goes on to the next file or returns
FileUploaded ==
  /\ uploadPc \in {"put", "upload"}
  /\ uploaded' = Append(uploaded, progress[uploadIndex].filename)
  /\ LET done == SetStatus(progress, uploadIndex, "completed", "")
     IN IF uploadIndex < Len(progress)
          THEN /\ progress' = SetStatus(done, uploadIndex + 1, "uploading", "")
               /\ uploadIndex' = uploadIndex + 1
               /\ uploadPc' = FirstAwait(uploadRev)
        ELSE /\ progress' = done
             /\ uploadPc' = "returned"
             /\ UNCHANGED uploadIndex
  /\ UNCHANGED <<recordVars, error, extractVars, commitVars, uploadRev>>

\* a catch block that marks the file and goes on with the next one
FileUploadFailsAndContinues ==
  /\ uploadPc \in {"presign", "put", "upload"}
  /\ \E message \in UploadErrorMessages :
       LET failed == SetStatus(progress, uploadIndex, "error", message)
       IN IF uploadIndex < Len(progress)
            THEN /\ progress' = SetStatus(failed, uploadIndex + 1, "uploading", "")
                 /\ uploadIndex' = uploadIndex + 1
                 /\ uploadPc' = FirstAwait(uploadRev)
          ELSE /\ progress' = failed
               /\ uploadPc' = "returned"
               /\ UNCHANGED uploadIndex
  /\ UNCHANGED <<recordVars, error, extractVars, commitVars, uploadRev, uploaded>>

\* an await rejected, or the backend answered success = false: the catch
\* block marks the file and rethrows
FileUploadFails ==
  /\ uploadPc \in {"presign", "put", "upload"}
  /\ \E message \in UploadErrorMessages :
       progress' = SetStatus(progress, uploadIndex, "error", message)
  /\ uploadPc' = "thrown"
  /\ UNCHANGED <<recordVars, error, extractVars, commitVars, uploadRev, uploadIndex, uploaded>>

NextUpload ==
  \/ uploadFilesToS3
  \/ PresignResolved
  \/ FileUploaded
  \/ FileUploadFails

SpecUpload == InitUpload /\ [][NextUpload]_vars

\* the files with a given status
WithStatus(status) == {j \in 1..Len(progress) : progress[j].status = status}

\* C30: uploadFilesToS3 uploads the selected files one at a time in
\* selection order; if the upload of file i fails, the error is rethrown,
\* file i is marked 'error', every file before i stays 'completed', and
\* every file after i stays 'pending' and is never uploaded.
C30_UploadsInOrderAndStopsAtFailure ==
  /\ Cardinality(WithStatus("uploading")) <= 1
  /\ uploaded = [j \in 1..Len(uploaded) |-> j]
  /\ WithStatus("completed") = 1..Len(uploaded)
  /\ WithStatus("error") # {}
       => /\ uploadPc = "thrown"
          /\ WithStatus("error") = {uploadIndex}
          /\ WithStatus("completed") = 1..(uploadIndex - 1)
          /\ WithStatus("pending") = (uploadIndex + 1)..Len(progress)

\* the second of three files failed
C30_Witness ==
  /\ uploadPc = "thrown"
  /\ Len(progress) = 3
  /\ progress[1].status = "completed"
  /\ progress[2].status = "error"
  /\ progress[3].status = "pending"

====
